---- MODULE Spec2Model ----
(***************************************************************************)
(* Model of common/json/number.go: the scanner states that recognise the   *)
(* keywords NumberInt, NumberLong and NumberDecimal after the prefix `Nu`, *)
(* and the six decoder entry points that read the constructor argument.    *)
(*                                                                         *)
(* Text is a sequence of one-character strings.  Integers of the program   *)
(* are 32 and 64 bits wide; they are kept as sign and decimal magnitude    *)
(* (a sequence of digits) so that the true limits 2^31 and 2^63 are used.  *)
(***************************************************************************)
EXTENDS Integers, Sequences, FiniteSets, TLC

VARIABLES scan, pending, useNumber, dest, last, calls

vars == <<scan, pending, useNumber, dest, last, calls>>

(***************************************************************************)
(* Bounds                                                                  *)
(***************************************************************************)
\* characters that may still be fed to a scanner that is in stateError
MaxErrSteps == 1
\* number of constructor arguments in one call
MaxArgs == 2
\* number of entry-point calls made on one decodeState
MaxCalls == 2

(***************************************************************************)
(* Scanner: scan actions and step functions                                *)
(***************************************************************************)
scanContinue == "scanContinue"
scanError == "scanError"
scanBeginCtor == "scanBeginCtor"
scanBeginLiteral == "scanBeginLiteral"

NoBytes == <<>>

\* A step function value.  fn names the function; a generated state also
\* carries the keyword name, the bytes still expected and the success state.
StepFn(fn) == [fn |-> fn, name |-> "", bytes |-> NoBytes, next |-> ""]

NoErr == [kind |-> "none", char |-> "", literal |-> "", expecting |-> {},
          name |-> "", expected |-> 0, actual |-> 0,
          wanted |-> "", got |-> "", value |-> NoBytes]

\* scanner.error(c, context): records the syntax error and makes stateError
\* the active step; the step returns scanError.
SyntaxError(c, literal, expecting) ==
    [NoErr EXCEPT !.kind = "syntax", !.char = c, !.literal = literal,
                  !.expecting = expecting]

error(sc, i, c, literal, expecting) ==
    [scanners |-> [sc EXCEPT ![i].step = StepFn("stateError"),
                             ![i].err = SyntaxError(c, literal, expecting)],
     ret |-> scanError]

\* generateState(name, bytes, next): the state that matches bytes in order and
\* then makes next the active step.
generateState(name, bytes, next) ==
    [fn |-> "generated", name |-> name, bytes |-> bytes, next |-> next]

\* one invocation of a generated state on character c
generatedStep(sc, i, c) ==
    LET g == sc[i].step IN
    IF c = Head(g.bytes)
    THEN [scanners |-> [sc EXCEPT ![i].step =
                          IF Tail(g.bytes) = NoBytes
                          THEN StepFn(g.next)
                          ELSE generateState(g.name, Tail(g.bytes), g.next)],
          ret |-> scanContinue]
    ELSE error(sc, i, c, g.name, {Head(g.bytes)})

\* the variant in which the active step is one cell shared by all scanners
stateUpperNuShared(sc, i, c) ==
    IF c = "m"
    THEN [scanners |-> [j \in DOMAIN sc |->
                          [sc[j] EXCEPT !.step =
                             generateState("Number", <<"b", "e", "r">>,
                                           "stateUpperNumber")]],
          ret |-> scanContinue]
    ELSE error(sc, i, c, "Number", {"m"})

\* the variant whose chain starts one byte late
stateUpperNuShort(sc, i, c) ==
    IF c = "m"
    THEN [scanners |-> [sc EXCEPT ![i].step =
                          generateState("Number", <<"e", "r">>,
                                        "stateUpperNumber")],
          ret |-> scanContinue]
    ELSE error(sc, i, c, "Number", {"m"})

\* the variant that accepts `M` as well
stateUpperNuFold(sc, i, c) ==
    IF c \in {"m", "M"}
    THEN [scanners |-> [sc EXCEPT ![i].step =
                          generateState("Number", <<"b", "e", "r">>,
                                        "stateUpperNumber")],
          ret |-> scanContinue]
    ELSE error(sc, i, c, "Number", {"m"})

\* stateUpperNu is the state after reading `Nu`.
stateUpperNu(sc, i, c) ==
    IF c = "m"
    THEN [scanners |-> [sc EXCEPT ![i].step =
                          generateState("Number", <<"b", "e", "r">>,
                                        "stateUpperNumber")],
          ret |-> scanContinue]
    ELSE error(sc, i, c, "Number", {"m"})

\* stateUpperNumber is the state after reading `Number`.
stateUpperNumber(sc, i, c) ==
    IF c = "I"
    THEN [scanners |-> [sc EXCEPT ![i].step =
                          generateState("NumberInt", <<"n", "t">>,
                                        "stateConstructor")],
          ret |-> scanContinue]
    ELSE IF c = "L"
    THEN [scanners |-> [sc EXCEPT ![i].step =
                          generateState("NumberLong", <<"o", "n", "g">>,
                                        "stateConstructor")],
          ret |-> scanContinue]
    ELSE IF c = "D"
    THEN [scanners |-> [sc EXCEPT ![i].step =
                          generateState("NumberDecimal",
                                        <<"e", "c", "i", "m", "a", "l">>,
                                        "stateConstructor")],
          ret |-> scanContinue]
    ELSE error(sc, i, c, "NumberInt or NumberLong", {"I", "L"})

\* stateError: the state reached after a syntax error; every character
\* returns scanError and the step stays stateError.
stateError(sc, i, c) == [scanners |-> sc, ret |-> scanError]

\* s.step(s, c): dispatch on the active step of scanner i
step(sc, i, c) ==
    CASE sc[i].step.fn = "stateUpperNu" -> stateUpperNu(sc, i, c)
      [] sc[i].step.fn = "stateUpperNumber" -> stateUpperNumber(sc, i, c)
      [] sc[i].step.fn = "generated" -> generatedStep(sc, i, c)
      [] sc[i].step.fn = "stateError" -> stateError(sc, i, c)

\* a scanner whose base part has just matched `Nu`
AfterNu == [step |-> StepFn("stateUpperNu"), err |-> NoErr,
            fed |-> NoBytes, ops |-> <<>>, errSteps |-> 0]

\* the scanners after scanner i has been given character c; fed and ops
\* record what it was given and what its step returned
Fed(sc, i, c) ==
    LET r == step(sc, i, c) IN
    [r.scanners EXCEPT
       ![i].fed = Append(@, c),
       ![i].ops = Append(@, r.ret),
       ![i].errSteps = IF sc[i].step.fn = "stateError" THEN @ + 1 ELSE @]

Feed(i, c) == scan' = Fed(scan, i, c)

RECURSIVE RunAlone(_, _)
\* a scanner that is the only one, given input from state s
RunAlone(s, input) ==
    IF input = NoBytes THEN s
    ELSE RunAlone(Fed([i \in {1} |-> s], 1, Head(input))[1], Tail(input))

Alphabet == {"m", "b", "e", "r", "I", "n", "t", "L", "o", "g", "D", "c", "i",
             "a", "l", "x", "M", "B", " "}

KwInt == <<"m", "b", "e", "r", "I", "n", "t">>
KwLong == <<"m", "b", "e", "r", "L", "o", "n", "g">>
KwDecimal == <<"m", "b", "e", "r", "D", "e", "c", "i", "m", "a", "l">>
Keywords == {KwInt, KwLong, KwDecimal}

(***************************************************************************)
(* Numbers: text, Number.Int32 / Number.Int64, decimal128 parsing          *)
(***************************************************************************)
DigitChars == <<"0", "1", "2", "3", "4", "5", "6", "7", "8", "9">>

IsDigit(c) == \E k \in 1..10 : DigitChars[k] = c

DigitVal(c) == (CHOOSE k \in 1..10 : DigitChars[k] = c) - 1

RECURSIVE StripZeros(_)
\* magnitude without leading zeros; zero is <<0>>
StripZeros(ds) ==
    IF Len(ds) > 1 /\ Head(ds) = 0 THEN StripZeros(Tail(ds)) ELSE ds

\* a < b for magnitudes without leading zeros
MagLess(a, b) ==
    \/ Len(a) < Len(b)
    \/ /\ Len(a) = Len(b)
       /\ \E k \in 1..Len(a) :
            a[k] < b[k] /\ \A j \in 1..(k - 1) : a[j] = b[j]

\* 2^31 and 2^63
Cutoff32 == <<2, 1, 4, 7, 4, 8, 3, 6, 4, 8>>
Cutoff64 == <<9, 2, 2, 3, 3, 7, 2, 0, 3, 6, 8, 5, 4, 7, 7, 5, 8, 0, 8>>

IntZero == [neg |-> FALSE, mag |-> <<0>>]

\* base-10 signed integer of text that fits below the cutoff 2^(bits-1):
\* optional sign, then one or more digits
ParseInt(text, cutoff) ==
    LET signed == text # NoBytes /\ Head(text) \in {"+", "-"}
        neg == text # NoBytes /\ Head(text) = "-"
        body == IF signed THEN Tail(text) ELSE text
    IN  IF body = NoBytes \/ \E k \in 1..Len(body) : ~IsDigit(body[k])
        THEN [err |-> "syntax", val |-> IntZero]
        ELSE LET mag == StripZeros([k \in 1..Len(body) |-> DigitVal(body[k])])
             IN  IF (neg /\ MagLess(cutoff, mag)) \/ (~neg /\ ~MagLess(mag, cutoff))
                 THEN [err |-> "range", val |-> IntZero]
                 ELSE [err |-> "", val |-> [neg |-> neg /\ mag # <<0>>,
                                            mag |-> mag]]

\* Number.Int32 and Number.Int64
Int32(number) == ParseInt(number, Cutoff32)
Int64(number) == ParseInt(number, Cutoff64)

\* strconv formatting of an integer: sign and decimal digits
FormatInt(n) ==
    (IF n.neg THEN <<"-">> ELSE <<>>) \o
    [k \in 1..Len(n.mag) |-> DigitChars[n.mag[k] + 1]]

\* values: one record shape for dynamic values and typed literal values
NoValue == [type |-> "none", text |-> NoBytes, neg |-> FALSE,
            digits |-> <<>>, exp |-> 0]

NumberInt(n) == [NoValue EXCEPT !.type = "NumberInt", !.neg = n.neg,
                                !.digits = n.mag]
NumberLong(n) == [NoValue EXCEPT !.type = "NumberLong", !.neg = n.neg,
                                 !.digits = n.mag]
Decimal128(v) == [NoValue EXCEPT !.type = "Decimal128", !.neg = v.neg,
                                 !.digits = v.digits, !.exp = v.exp]
Dynamic(type, text) == [NoValue EXCEPT !.type = type, !.text = text]

\* the zero Decimal128{} that the parser returns together with an error
ZeroDecimal == [neg |-> FALSE, digits |-> <<>>, exp |-> 0 - 6176]

\* primitive.ParseDecimal128: optional sign, digits with at most one point;
\* the exponent is minus the number of fraction digits, so that trailing
\* zeros are kept
ParseDecimal128(text) ==
    LET signed == text # NoBytes /\ Head(text) \in {"+", "-"}
        neg == text # NoBytes /\ Head(text) = "-"
        body == IF signed THEN Tail(text) ELSE text
        dots == {k \in 1..Len(body) : body[k] = "."}
        ds == SelectSeq(body, IsDigit)
    IN  IF \/ ds = NoBytes
           \/ Cardinality(dots) > 1
           \/ \E k \in 1..Len(body) : ~IsDigit(body[k]) /\ body[k] # "."
        THEN [err |-> "syntax", val |-> ZeroDecimal]
        ELSE [err |-> "",
              val |-> [neg |-> neg,
                       digits |-> StripZeros([k \in 1..Len(ds) |-> DigitVal(ds[k])]),
                       exp |-> IF dots = {} THEN 0
                               ELSE 0 - (Len(body) - (CHOOSE k \in dots : TRUE))]]

(***************************************************************************)
(* Constructor arguments as the base decoder sees them                     *)
(***************************************************************************)
\* an argument of the constructor call: a bare JSON number, a quoted string,
\* another JSON value, or a bare token that is no JSON value (kind invalid)
Tok(kind, text) == [kind |-> kind, text |-> text]

Stem32 == <<2, 1, 4, 7, 4, 8, 3, 6, 4>>
Stem64 == <<9, 2, 2, 3, 3, 7, 2, 0, 3, 6, 8, 5, 4, 7, 7, 5, 8, 0>>
LastDigits == {0, 1, 7, 8, 9}

SampleMags == {<<k>> : k \in LastDigits} \cup {Stem32 \o <<k>> : k \in LastDigits}
              \cup {Stem64 \o <<k>> : k \in LastDigits}
SampleInts == {n \in [neg : BOOLEAN, mag : SampleMags] : ~(n.neg /\ n.mag = <<0>>)}

IntTexts == {FormatInt(n) : n \in SampleInts}
FracTexts == {<<"1", ".", "5">>, <<"1", ".", "5", "0">>}
OddTexts == {<<>>, <<"a", "b", "c">>, <<"+", "7">>, <<"0", "0", "7">>,
             <<" ", "7">>, <<"1", ".", "5", ".">>}

Tokens ==
    {Tok("number", t) : t \in IntTexts \cup FracTexts}
    \cup {Tok("string", t) : t \in IntTexts \cup FracTexts \cup OddTexts}
    \cup {Tok("true", <<"t", "r", "u", "e">>), Tok("null", <<"n", "u", "l", "l">>),
          Tok("object", <<"{", "}">>), Tok("array", <<"[", "]">>),
          Tok("invalid", <<"a", "b", "c">>)}

\* argument lists: none, one argument of any kind, or several arguments
ExtraTok == Tok("number", <<"2">>)
FirstOfMany == {Tok("number", <<"1">>), Tok("string", <<"1">>),
                Tok("true", <<"t", "r", "u", "e">>)}

ArgLists == {<<>>} \cup {<<t>> : t \in Tokens}
            \cup {<<t>> \o [k \in 1..m |-> ExtraTok] :
                    t \in FirstOfMany, m \in 1..(MaxArgs - 1)}

\* d.error(err): the error unwinds the call; nothing after it is executed
SyntaxInArg(tok) == [NoErr EXCEPT !.kind = "syntax", !.value = tok.text]

\* the dynamic value the base decoder makes of one argument (d.valueInterface);
\* a bare number is kept as text only when useNumber is set
valueInterface(tok, useNum) ==
    CASE tok.kind = "number" ->
             IF useNum THEN Dynamic("json.Number", tok.text)
             ELSE Dynamic("float64", tok.text)
      [] tok.kind = "string" -> Dynamic("string", tok.text)
      [] tok.kind = "true" -> Dynamic("bool", tok.text)
      [] tok.kind = "null" -> Dynamic("<nil>", tok.text)
      [] tok.kind = "object" -> Dynamic("map[string]interface {}", tok.text)
      [] tok.kind = "array" -> Dynamic("[]interface {}", tok.text)

\* d.ctorInterface(): every argument decoded into a dynamic value; a token
\* that is no JSON value is a syntax error raised inside the decoding
ctorInterface(useNum, toks) ==
    IF \E k \in 1..Len(toks) : toks[k].kind = "invalid"
    THEN [args |-> <<>>, panic |-> TRUE,
          err |-> SyntaxInArg(toks[CHOOSE k \in 1..Len(toks) : toks[k].kind = "invalid"])]
    ELSE [args |-> [k \in 1..Len(toks) |-> valueInterface(toks[k], useNum)],
          panic |-> FALSE, err |-> NoErr]

\* ctorNumArgsMismatch(name, expected, actual)
ctorNumArgsMismatch(name, expected, actual) ==
    IF expected = actual THEN NoErr
    ELSE [NoErr EXCEPT !.kind = "arity", !.name = name,
                       !.expected = expected, !.actual = actual]

\* the value of declared type t the base decoder makes of one argument
typedValue(t, tok) ==
    CASE t = "json.NumberInt" ->
             IF tok.kind = "number" /\ Int32(tok.text).err = ""
             THEN NumberInt(Int32(tok.text).val) ELSE NoValue
      [] t = "json.NumberLong" ->
             IF tok.kind = "number" /\ Int64(tok.text).err = ""
             THEN NumberLong(Int64(tok.text).val) ELSE NoValue
      [] t = "string" ->
             IF tok.kind = "string" THEN Dynamic("string", tok.text) ELSE NoValue

\* d.ctor(name, types): the arguments decoded by position into the declared
\* types; an error is returned when the count or a type does not match
ctor(name, types, toks) ==
    IF \E k \in 1..Len(toks) : toks[k].kind = "invalid"
    THEN [args |-> <<>>, panic |-> TRUE,
          err |-> SyntaxInArg(toks[CHOOSE k \in 1..Len(toks) : toks[k].kind = "invalid"])]
    ELSE IF Len(toks) # Len(types)
    THEN [args |-> <<>>, panic |-> FALSE,
          err |-> ctorNumArgsMismatch(name, Len(types), Len(toks))]
    ELSE LET vs == [k \in 1..Len(types) |-> typedValue(types[k], toks[k])]
         IN  IF \E k \in 1..Len(vs) : vs[k] = NoValue
             THEN [args |-> <<>>, panic |-> FALSE,
                   err |-> [NoErr EXCEPT !.kind = "ctortype", !.name = name,
                                         !.wanted = types[1],
                                         !.got = toks[1].kind,
                                         !.value = toks[1].text]]
             ELSE [args |-> vs, panic |-> FALSE, err |-> NoErr]

(***************************************************************************)
(* The six entry points.  Each returns the outcome of one call: whether it *)
(* returned or raised, the value returned, the error raised, d.useNumber   *)
(* and the destination as the call leaves them, and the statements it ran. *)
(***************************************************************************)
Slot(kind) == [kind |-> kind, value |-> NoValue, writes |-> 0]

\* v.Set(x)
Set(v, x) == [v EXCEPT !.value = x, !.writes = @ + 1]

\* d.error(err): raises err; the call ends at this statement
dError(err, useNum, v, events) ==
    [outcome |-> "error", value |-> NoValue, err |-> err, useNumber |-> useNum,
     dest |-> v, events |-> Append(events, "d.error")]

Return(value, useNum, v, events) ==
    [outcome |-> "ok", value |-> value, err |-> NoErr, useNumber |-> useNum,
     dest |-> v, events |-> Append(events, "return")]

ErrBeginCtor == [NoErr EXCEPT !.kind = "expected beginning of constructor"]

ErrCannotStore(type, kind) ==
    [NoErr EXCEPT !.kind = "cannot store", !.wanted = type, !.got = kind]

\* "expected <wanted> for first argument of <name> constructor, got %T (value was %v)"
ErrArgument(kind, wanted, name, v) ==
    [NoErr EXCEPT !.kind = kind, !.wanted = wanted, !.name = name,
                  !.got = v.type, !.value = v.text]

ErrParseDecimal(text) ==
    [NoErr EXCEPT !.kind = "parse decimal error", !.value = text]

\* storeNumberInt that sets v before it looks at the kind of v
storeNumberIntSetFirst(d, v, op, toks) ==
    IF op # scanBeginCtor
    THEN dError(ErrBeginCtor, d, v, <<"scanWhile">>)
    ELSE LET c == ctor("NumberInt", <<"json.NumberInt">>, toks)
             ev == <<"scanWhile", "ctor">>
         IN  IF c.panic \/ c.err # NoErr
             THEN dError(c.err, d, v, ev)
             ELSE IF v.kind = "interface"
             THEN Return(NoValue, d, Set(v, c.args[1]), ev \o <<"args[0]", "v.Set">>)
             ELSE dError(ErrCannotStore("json.NumberInt", v.kind), d,
                         Set(v, c.args[1]), ev \o <<"args[0]", "v.Set">>)

\* storeNumberInt that takes args[0] before it looks at err
storeNumberIntReadFirst(d, v, op, toks) ==
    IF op # scanBeginCtor
    THEN dError(ErrBeginCtor, d, v, <<"scanWhile">>)
    ELSE LET c == ctor("NumberInt", <<"json.NumberInt">>, toks)
             ev == <<"scanWhile", "ctor", "args[0]">>
         IN  IF c.panic \/ c.err # NoErr
             THEN dError(c.err, d, v, ev)
             ELSE IF v.kind = "interface"
             THEN Return(NoValue, d, Set(v, c.args[1]), ev \o <<"v.Set">>)
             ELSE dError(ErrCannotStore("json.NumberInt", v.kind), d, v, ev)

\* storeNumberInt that stores without looking at the kind of v
storeNumberIntUnchecked(d, v, op, toks) ==
    IF op # scanBeginCtor
    THEN dError(ErrBeginCtor, d, v, <<"scanWhile">>)
    ELSE LET c == ctor("NumberInt", <<"json.NumberInt">>, toks)
             ev == <<"scanWhile", "ctor">>
         IN  IF c.panic \/ c.err # NoErr
             THEN dError(c.err, d, v, ev)
             ELSE Return(NoValue, d, Set(v, c.args[1]), ev \o <<"args[0]", "v.Set">>)

\* Decodes a NumberInt literal stored in the underlying byte data into v.
storeNumberInt(d, v, op, toks) ==
    IF op # scanBeginCtor
    THEN dError(ErrBeginCtor, d, v, <<"scanWhile">>)
    ELSE LET c == ctor("NumberInt", <<"json.NumberInt">>, toks)
             ev == <<"scanWhile", "ctor">>
         IN  IF c.panic \/ c.err # NoErr
             THEN dError(c.err, d, v, ev)
             ELSE IF v.kind = "interface"
             THEN Return(NoValue, d, Set(v, c.args[1]), ev \o <<"args[0]", "v.Set">>)
             ELSE dError(ErrCannotStore("json.NumberInt", v.kind), d, v, ev)

\* getNumberInt that sets d.useNumber before it looks at op
getNumberIntFlagFirst(d, op, toks) ==
    IF op # scanBeginCtor
    THEN dError(ErrBeginCtor, TRUE, Slot("none"), <<"useNumber=true", "scanWhile">>)
    ELSE LET dec == ctorInterface(TRUE, toks)
             ev == <<"useNumber=true", "scanWhile", "ctorInterface">>
         IN  IF dec.panic THEN dError(dec.err, TRUE, Slot("none"), ev)
             ELSE LET aerr == ctorNumArgsMismatch("NumberInt", 1, Len(dec.args))
                  IN  IF aerr # NoErr THEN dError(aerr, TRUE, Slot("none"), ev)
                      ELSE LET a == dec.args[1]
                               ev2 == Append(ev, "args[0]")
                           IN  IF a.type \notin {"json.Number", "string"}
                               THEN dError(ErrArgument("argument type", "int32", "NumberInt", a),
                                           TRUE, Slot("none"), ev2)
                               ELSE LET r == Int32(a.text)
                                        ev3 == ev2 \o <<"useNumber=saved", "Int32">>
                                    IN  IF r.err # ""
                                        THEN dError(ErrArgument("range or format", "int32", "NumberInt",
                                                                Dynamic("json.Number", a.text)),
                                                    d, Slot("none"), ev3)
                                        ELSE Return(NumberInt(r.val), d, Slot("none"), ev3)

\* getNumberInt that leaves d.useNumber as it finds it
getNumberIntKeepFlag(d, op, toks) ==
    IF op # scanBeginCtor
    THEN dError(ErrBeginCtor, d, Slot("none"), <<"scanWhile">>)
    ELSE LET dec == ctorInterface(d, toks)
             ev == <<"scanWhile", "ctorInterface">>
         IN  IF dec.panic THEN dError(dec.err, d, Slot("none"), ev)
             ELSE LET aerr == ctorNumArgsMismatch("NumberInt", 1, Len(dec.args))
                  IN  IF aerr # NoErr THEN dError(aerr, d, Slot("none"), ev)
                      ELSE LET a == dec.args[1]
                               ev2 == Append(ev, "args[0]")
                           IN  IF a.type \notin {"json.Number", "string"}
                               THEN dError(ErrArgument("argument type", "int32", "NumberInt", a),
                                           d, Slot("none"), ev2)
                               ELSE LET r == Int32(a.text)
                                        ev3 == ev2 \o <<"useNumber=saved", "Int32">>
                                    IN  IF r.err # ""
                                        THEN dError(ErrArgument("range or format", "int32", "NumberInt",
                                                                Dynamic("json.Number", a.text)),
                                                    d, Slot("none"), ev3)
                                        ELSE Return(NumberInt(r.val), d, Slot("none"), ev3)

\* getNumberInt that converts with Int64
getNumberIntWide(d, op, toks) ==
    IF op # scanBeginCtor
    THEN dError(ErrBeginCtor, d, Slot("none"), <<"scanWhile">>)
    ELSE LET dec == ctorInterface(TRUE, toks)
             ev == <<"scanWhile", "useNumber=true", "ctorInterface">>
         IN  IF dec.panic THEN dError(dec.err, TRUE, Slot("none"), ev)
             ELSE LET aerr == ctorNumArgsMismatch("NumberInt", 1, Len(dec.args))
                  IN  IF aerr # NoErr THEN dError(aerr, TRUE, Slot("none"), ev)
                      ELSE LET a == dec.args[1]
                               ev2 == Append(ev, "args[0]")
                           IN  IF a.type \notin {"json.Number", "string"}
                               THEN dError(ErrArgument("argument type", "int32", "NumberInt", a),
                                           TRUE, Slot("none"), ev2)
                               ELSE LET r == Int64(a.text)
                                        ev3 == ev2 \o <<"useNumber=saved", "Int32">>
                                    IN  IF r.err # ""
                                        THEN dError(ErrArgument("range or format", "int32", "NumberInt",
                                                                Dynamic("json.Number", a.text)),
                                                    d, Slot("none"), ev3)
                                        ELSE Return(NumberInt(r.val), d, Slot("none"), ev3)

\* getNumberInt that rejects only an empty argument list
getNumberIntFirstArg(d, op, toks) ==
    IF op # scanBeginCtor
    THEN dError(ErrBeginCtor, d, Slot("none"), <<"scanWhile">>)
    ELSE LET dec == ctorInterface(TRUE, toks)
             ev == <<"scanWhile", "useNumber=true", "ctorInterface">>
         IN  IF dec.panic THEN dError(dec.err, TRUE, Slot("none"), ev)
             ELSE LET aerr == ctorNumArgsMismatch("NumberInt", 1, Len(dec.args))
                  IN  IF Len(dec.args) = 0 THEN dError(aerr, TRUE, Slot("none"), ev)
                      ELSE LET a == dec.args[1]
                               ev2 == Append(ev, "args[0]")
                           IN  IF a.type \notin {"json.Number", "string"}
                               THEN dError(ErrArgument("argument type", "int32", "NumberInt", a),
                                           TRUE, Slot("none"), ev2)
                               ELSE LET r == Int32(a.text)
                                        ev3 == ev2 \o <<"useNumber=saved", "Int32">>
                                    IN  IF r.err # ""
                                        THEN dError(ErrArgument("range or format", "int32", "NumberInt",
                                                                Dynamic("json.Number", a.text)),
                                                    d, Slot("none"), ev3)
                                        ELSE Return(NumberInt(r.val), d, Slot("none"), ev3)

\* getNumberInt whose type switch takes the text of any argument
getNumberIntAnyType(d, op, toks) ==
    IF op # scanBeginCtor
    THEN dError(ErrBeginCtor, d, Slot("none"), <<"scanWhile">>)
    ELSE LET dec == ctorInterface(TRUE, toks)
             ev == <<"scanWhile", "useNumber=true", "ctorInterface">>
         IN  IF dec.panic THEN dError(dec.err, TRUE, Slot("none"), ev)
             ELSE LET aerr == ctorNumArgsMismatch("NumberInt", 1, Len(dec.args))
                  IN  IF aerr # NoErr THEN dError(aerr, TRUE, Slot("none"), ev)
                      ELSE LET a == dec.args[1]
                               ev2 == Append(ev, "args[0]")
                               r == Int32(a.text)
                               ev3 == ev2 \o <<"useNumber=saved", "Int32">>
                           IN  IF r.err # ""
                               THEN dError(ErrArgument("range or format", "int32", "NumberInt",
                                                       Dynamic("json.Number", a.text)),
                                           d, Slot("none"), ev3)
                               ELSE Return(NumberInt(r.val), d, Slot("none"), ev3)

\* Returns a NumberInt literal from the underlying byte data.
\* d is d.useNumber at the call; the flag is TRUE from line 72 to line 88.
getNumberInt(d, op, toks) ==
    IF op # scanBeginCtor
    THEN dError(ErrBeginCtor, d, Slot("none"), <<"scanWhile">>)
    ELSE LET dec == ctorInterface(TRUE, toks)
             ev == <<"scanWhile", "useNumber=true", "ctorInterface">>
         IN  IF dec.panic THEN dError(dec.err, TRUE, Slot("none"), ev)
             ELSE LET aerr == ctorNumArgsMismatch("NumberInt", 1, Len(dec.args))
                  IN  IF aerr # NoErr THEN dError(aerr, TRUE, Slot("none"), ev)
                      ELSE LET a == dec.args[1]
                               ev2 == Append(ev, "args[0]")
                           IN  IF a.type \notin {"json.Number", "string"}
                               THEN dError(ErrArgument("argument type", "int32", "NumberInt", a),
                                           TRUE, Slot("none"), ev2)
                               ELSE LET r == Int32(a.text)
                                        ev3 == ev2 \o <<"useNumber=saved", "Int32">>
                                    IN  IF r.err # ""
                                        THEN dError(ErrArgument("range or format", "int32", "NumberInt",
                                                                Dynamic("json.Number", a.text)),
                                                    d, Slot("none"), ev3)
                                        ELSE Return(NumberInt(r.val), d, Slot("none"), ev3)

\* Decodes a NumberLong literal stored in the underlying byte data into v.
storeNumberLong(d, v, op, toks) ==
    IF op # scanBeginCtor
    THEN dError(ErrBeginCtor, d, v, <<"scanWhile">>)
    ELSE LET c == ctor("NumberLong", <<"json.NumberLong">>, toks)
             ev == <<"scanWhile", "ctor">>
         IN  IF c.panic \/ c.err # NoErr
             THEN dError(c.err, d, v, ev)
             ELSE IF v.kind = "interface"
             THEN Return(NoValue, d, Set(v, c.args[1]), ev \o <<"args[0]", "v.Set">>)
             ELSE dError(ErrCannotStore("json.NumberLong", v.kind), d, v, ev)

\* Returns a NumberLong literal from the underlying byte data.
getNumberLong(d, op, toks) ==
    IF op # scanBeginCtor
    THEN dError(ErrBeginCtor, d, Slot("none"), <<"scanWhile">>)
    ELSE LET dec == ctorInterface(TRUE, toks)
             ev == <<"scanWhile", "useNumber=true", "ctorInterface">>
         IN  IF dec.panic THEN dError(dec.err, TRUE, Slot("none"), ev)
             ELSE LET aerr == ctorNumArgsMismatch("NumberLong", 1, Len(dec.args))
                  IN  IF aerr # NoErr THEN dError(aerr, TRUE, Slot("none"), ev)
                      ELSE LET a == dec.args[1]
                               ev2 == Append(ev, "args[0]")
                           IN  IF a.type \notin {"json.Number", "string"}
                               THEN dError(ErrArgument("argument type", "int64", "NumberLong", a),
                                           TRUE, Slot("none"), ev2)
                               ELSE LET r == Int64(a.text)
                                        ev3 == ev2 \o <<"useNumber=saved", "Int64">>
                                    IN  IF r.err # ""
                                        THEN dError(ErrArgument("range or format", "int64", "NumberLong",
                                                                Dynamic("json.Number", a.text)),
                                                    d, Slot("none"), ev3)
                                        ELSE Return(NumberLong(r.val), d, Slot("none"), ev3)

\* Decodes a NumberDecimal literal stored in the underlying byte data into v.
\* The error of ParseDecimal128 is dropped (vv, _ :=) and vv is stored.
storeNumberDecimal(d, v, op, toks) ==
    IF op # scanBeginCtor
    THEN dError(ErrBeginCtor, d, v, <<"scanWhile">>)
    ELSE LET c == ctor("string", <<"string">>, toks)
             ev == <<"scanWhile", "ctor">>
         IN  IF c.panic \/ c.err # NoErr
             THEN dError(c.err, d, v, ev)
             ELSE IF v.kind = "interface"
             THEN LET vv == ParseDecimal128(c.args[1].text).val
                  IN  Return(NoValue, d, Set(v, Decimal128(vv)),
                             ev \o <<"args[0]", "ParseDecimal128", "v.Set">>)
             ELSE dError(ErrCannotStore("string", v.kind), d, v, ev)

\* Returns a NumberDecimal literal from the underlying byte data.
getNumberDecimal(d, op, toks) ==
    IF op # scanBeginCtor
    THEN dError(ErrBeginCtor, d, Slot("none"), <<"scanWhile">>)
    ELSE LET dec == ctorInterface(TRUE, toks)
             ev == <<"scanWhile", "useNumber=true", "ctorInterface">>
         IN  IF dec.panic THEN dError(dec.err, TRUE, Slot("none"), ev)
             ELSE LET aerr == ctorNumArgsMismatch("string", 1, Len(dec.args))
                  IN  IF aerr # NoErr THEN dError(aerr, TRUE, Slot("none"), ev)
                      ELSE LET a == dec.args[1]
                               ev2 == Append(ev, "args[0]")
                           IN  IF a.type \notin {"json.Number", "string"}
                               THEN dError(ErrArgument("argument type", "int32", "NumberInt", a),
                                           TRUE, Slot("none"), ev2)
                               ELSE LET r == ParseDecimal128(a.text)
                                        ev3 == ev2 \o <<"useNumber=saved", "ParseDecimal128">>
                                    IN  IF r.err # ""
                                        THEN dError(ErrParseDecimal(a.text), d, Slot("none"), ev3)
                                        ELSE Return(Decimal128(r.val), d, Slot("none"), ev3)

(***************************************************************************)
(* State machine                                                           *)
(***************************************************************************)
\* the scan action scanWhile(scanSkipSpace) returns at the call
FirstOps == {scanBeginCtor, scanBeginLiteral}

DestKinds == {"interface", "int32", "string", "struct"}

\* the destination the caller supplies with a store call
FreshSlots == {Slot(k) : k \in DestKinds}

NoCall == [fn |-> "none", op |-> "", toks |-> <<>>, prior |-> FALSE,
           destBefore |-> Slot("none"), outcome |-> "none", value |-> NoValue,
           err |-> NoErr, events |-> <<>>]

Called(fn, v, op, toks, r) ==
    [fn |-> fn, op |-> op, toks |-> toks, prior |-> useNumber,
     destBefore |-> v, outcome |-> r.outcome, value |-> r.value,
     err |-> r.err, events |-> r.events]

ScannerIdle == scan = [i \in {1} |-> AfterNu] /\ pending = [i \in {1} |-> NoBytes]

DecoderIdle == /\ useNumber = FALSE
               /\ dest = Slot("none")
               /\ last = NoCall
               /\ calls = 0

\* a call is made on a decodeState that no error has unwound
CanCall == calls < MaxCalls /\ last.outcome # "error"

\* dest is the destination slot v of the latest call; the get entry points
\* have none
CallGet(fn, r, op, toks) ==
    /\ last' = Called(fn, Slot("none"), op, toks, r)
    /\ useNumber' = r.useNumber
    /\ dest' = Slot("none")
    /\ calls' = calls + 1
    /\ UNCHANGED <<scan, pending>>

CallStore(fn, v, r, op, toks) ==
    /\ last' = Called(fn, v, op, toks, r)
    /\ useNumber' = r.useNumber
    /\ dest' = r.dest
    /\ calls' = calls + 1
    /\ UNCHANGED <<scan, pending>>

CallGetNumberInt ==
    /\ CanCall
    /\ \E op \in FirstOps, toks \in ArgLists :
         CallGet("getNumberInt", getNumberInt(useNumber, op, toks), op, toks)

CallGetNumberLong ==
    /\ CanCall
    /\ \E op \in FirstOps, toks \in ArgLists :
         CallGet("getNumberLong", getNumberLong(useNumber, op, toks), op, toks)

CallGetNumberDecimal ==
    /\ CanCall
    /\ \E op \in FirstOps, toks \in ArgLists :
         CallGet("getNumberDecimal", getNumberDecimal(useNumber, op, toks), op, toks)

CallStoreNumberInt ==
    /\ CanCall
    /\ \E v \in FreshSlots, op \in FirstOps, toks \in ArgLists :
         CallStore("storeNumberInt", v, storeNumberInt(useNumber, v, op, toks), op, toks)

CallStoreNumberLong ==
    /\ CanCall
    /\ \E v \in FreshSlots, op \in FirstOps, toks \in ArgLists :
         CallStore("storeNumberLong", v, storeNumberLong(useNumber, v, op, toks), op, toks)

CallStoreNumberDecimal ==
    /\ CanCall
    /\ \E v \in FreshSlots, op \in FirstOps, toks \in ArgLists :
         CallStore("storeNumberDecimal", v, storeNumberDecimal(useNumber, v, op, toks), op, toks)

DecodeInit == /\ ScannerIdle
              /\ useNumber \in BOOLEAN
              /\ dest = Slot("none")
              /\ last = NoCall
              /\ calls = 0

DecodeNext == \/ CallGetNumberInt
              \/ CallGetNumberLong
              \/ CallGetNumberDecimal
              \/ CallStoreNumberInt
              \/ CallStoreNumberLong
              \/ CallStoreNumberDecimal

SpecDecode == DecodeInit /\ [][DecodeNext]_vars

\* a scanner is fed until it reaches stateConstructor, where the decoder
\* takes over, or has been fed MaxErrSteps characters in stateError
CanFeed(i) == /\ scan[i].step.fn # "stateConstructor"
              /\ scan[i].errSteps < MaxErrSteps

\* one scanner, any next character
ScanChar ==
    /\ CanFeed(1)
    /\ \E c \in Alphabet : Feed(1, c)
    /\ UNCHANGED <<pending, useNumber, dest, last, calls>>

ScanInit == ScannerIdle /\ DecoderIdle

ScanNext == ScanChar

SpecScan == ScanInit /\ [][ScanNext]_vars

\* two decode operations, each with its own scanner and its own input
Ops == {1, 2}

ConcInputs == {KwInt, KwLong, KwDecimal,
               <<"m", "b", "e", "r", "I", "n", "x", "t">>,
               <<"m", "b", "e", "r", "L", "o", "n", "G">>,
               <<"m", "b", "e", "r", "d", "e", "c">>,
               <<"m", "x", "m", "b">>,
               <<"M", "b", "e", "r">>,
               <<"m", "b", "e", "r", "D", "e", "c", "i", "m", "a", "L", "l">>}

DecodeChar(i) ==
    /\ pending[i] # NoBytes
    /\ CanFeed(i)
    /\ Feed(i, Head(pending[i]))
    /\ pending' = [pending EXCEPT ![i] = Tail(@)]
    /\ UNCHANGED <<useNumber, dest, last, calls>>

ConcInit == /\ scan = [i \in Ops |-> AfterNu]
            /\ pending \in [Ops -> ConcInputs]
            /\ DecoderIdle

ConcNext == \E i \in Ops : DecodeChar(i)

SpecConc == ConcInit /\ [][ConcNext]_vars

(***************************************************************************)
(* Properties                                                              *)
(***************************************************************************)
GetFns == {"getNumberInt", "getNumberLong", "getNumberDecimal"}
StoreFns == {"storeNumberInt", "storeNumberLong", "storeNumberDecimal"}

\* sample integers by range, told by their last digit
InInt32 == {n \in SampleInts :
              \/ Len(n.mag) = 1
              \/ Len(n.mag) = 10 /\ n.mag[10] <= (IF n.neg THEN 8 ELSE 7)}
InInt64Only == {n \in SampleInts :
                  \/ Len(n.mag) = 10 /\ n.mag[10] > (IF n.neg THEN 8 ELSE 7)
                  \/ Len(n.mag) = 19 /\ n.mag[19] <= (IF n.neg THEN 8 ELSE 7)}
NumArgKinds == {"number", "string"}

\* the call was made on a constructor call `(` toks `)`
OnCall(fns, toks) ==
    last.fn \in fns /\ last.op = scanBeginCtor /\ last.toks = toks

\* C1: from stateUpperNu the step is stateConstructor exactly when the
\* characters fed are mberInt, mberLong or mberDecimal, and every character of
\* these returned scanContinue.
C1_ConstructorIffKeyword ==
    /\ scan[1].step = StepFn("stateConstructor") <=> scan[1].fed \in Keywords
    /\ scan[1].fed \in Keywords =>
         \A k \in 1..Len(scan[1].ops) : scan[1].ops[k] = scanContinue

C1_Witness == scan[1].fed = KwDecimal /\ scan[1].step.fn = "stateConstructor"

\* C2: for every 32-bit integer n, getNumberInt on (n) and on ("n") returns
\* NumberInt(n).
C2_IntBareAndQuoted ==
    \A n \in InInt32, k \in NumArgKinds :
        OnCall({"getNumberInt"}, <<Tok(k, FormatInt(n))>>) =>
            last.outcome = "ok" /\ last.value = NumberInt(n)

C2_Witness ==
    /\ OnCall({"getNumberInt"},
              <<Tok("string", FormatInt([neg |-> TRUE, mag |-> Stem32 \o <<8>>]))>>)
    /\ last.prior = FALSE
    /\ last.outcome = "ok"

\* C3: for every 64-bit integer n outside the 32-bit range getNumberLong returns
\* NumberLong(n) and getNumberInt fails with the range error and no value;
\* 9223372036854775808 makes getNumberLong fail with the range error.
C3_LongAcceptsIntRejects ==
    /\ \A n \in InInt64Only, k \in NumArgKinds :
         /\ OnCall({"getNumberLong"}, <<Tok(k, FormatInt(n))>>) =>
                last.outcome = "ok" /\ last.value = NumberLong(n)
         /\ OnCall({"getNumberInt"}, <<Tok(k, FormatInt(n))>>) =>
                /\ last.outcome = "error"
                /\ last.err.kind = "range or format"
                /\ last.value = NoValue
    /\ \A k \in NumArgKinds :
         OnCall({"getNumberLong"},
                <<Tok(k, FormatInt([neg |-> FALSE, mag |-> Cutoff64]))>>) =>
             /\ last.outcome = "error"
             /\ last.err.kind = "range or format"
             /\ last.value = NoValue

C3_Witness ==
    /\ OnCall({"getNumberInt"},
              <<Tok("number", FormatInt([neg |-> FALSE, mag |-> Cutoff32]))>>)
    /\ last.outcome = "error"

\* C4: a constructor call with k # 1 arguments is rejected with the arity
\* mismatch (expected 1, actual k) and yields no value; the numeric conversion
\* runs only when k = 1.
C4_ArityOne ==
    /\ ( /\ last.fn \in GetFns \cup StoreFns
         /\ last.op = scanBeginCtor
         /\ \A k \in 1..Len(last.toks) : last.toks[k].kind # "invalid"
         /\ Len(last.toks) # 1 )
       => /\ last.outcome = "error"
          /\ last.err.kind = "arity"
          /\ last.err.expected = 1
          /\ last.err.actual = Len(last.toks)
          /\ last.value = NoValue
          /\ dest = last.destBefore
    /\ (\E k \in 1..Len(last.events) :
           last.events[k] \in {"Int32", "Int64", "ParseDecimal128"})
       => Len(last.toks) = 1

C4_Witness ==
    /\ last.fn = "getNumberInt" /\ last.op = scanBeginCtor
    /\ Len(last.toks) = 2
    /\ last.err.kind = "arity"

\* the typed constructor decode each store entry point makes
StoreCtor(fn, toks) ==
    CASE fn = "storeNumberInt" -> ctor("NumberInt", <<"json.NumberInt">>, toks)
      [] fn = "storeNumberLong" -> ctor("NumberLong", <<"json.NumberLong">>, toks)
      [] fn = "storeNumberDecimal" -> ctor("string", <<"string">>, toks)

\* C5 as stated: a store into a destination that is no interface always fails
\* with the destination-type error, whatever the argument, and leaves the
\* destination unwritten.
C5_AlwaysCannotStore ==
    ( /\ last.fn \in StoreFns
      /\ last.op = scanBeginCtor
      /\ last.destBefore.kind # "interface" )
    => /\ last.outcome = "error"
       /\ last.err.kind = "cannot store"
       /\ dest = last.destBefore

\* C5 amended: a store into a destination that is no interface always fails and
\* never writes the destination; the error is the destination-type error
\* exactly when `(` was found and the typed constructor decode returned no
\* error, otherwise it is the error of that earlier step.
C5_FixedDestinationFails ==
    ( /\ last.fn \in StoreFns
      /\ last.destBefore.kind # "interface" )
    => /\ last.outcome = "error"
       /\ dest = last.destBefore
       /\ dest.writes = 0
       /\ last.err.kind = "cannot store"
            <=> /\ last.op = scanBeginCtor
                /\ ~StoreCtor(last.fn, last.toks).panic
                /\ StoreCtor(last.fn, last.toks).err = NoErr
       /\ last.err.kind = "cannot store" => last.err.got = last.destBefore.kind

C5_Witness ==
    /\ last.fn = "storeNumberDecimal"
    /\ last.destBefore.kind = "struct"
    /\ last.op = scanBeginCtor
    /\ last.toks = <<Tok("string", <<"1", ".", "5", "0">>)>>
    /\ last.err.kind = "cannot store"

\* C6: when the decimal128 parser rejects the text of the argument,
\* getNumberDecimal and storeNumberDecimal into an interface slot fail with the
\* decimal-parse error; no Decimal128 is returned and none is stored.
C6_DecimalParseFailure ==
    ( /\ last.fn \in {"getNumberDecimal", "storeNumberDecimal"}
      /\ last.op = scanBeginCtor
      /\ Len(last.toks) = 1
      /\ last.toks[1].kind \in NumArgKinds
      /\ ParseDecimal128(last.toks[1].text).err # ""
      /\ last.fn = "storeNumberDecimal" => last.destBefore.kind = "interface" )
    => /\ last.outcome = "error"
       /\ last.err.kind = "parse decimal error"
       /\ last.value = NoValue
       /\ dest = last.destBefore

\* C7: d.useNumber after getNumberInt, getNumberLong or getNumberDecimal equals
\* d.useNumber before it, on every outcome.
C7_UseNumberRestored ==
    last.fn \in GetFns => useNumber = last.prior

\* C8: in the get entry points a single argument that is neither a Number nor
\* a string is rejected with the type error that carries its type and value,
\* and no value is returned.
C8_OtherTypesRejected ==
    \A t \in Tokens :
        ( /\ t.kind \in {"true", "null", "object", "array"}
          /\ OnCall(GetFns, <<t>>) )
        => /\ last.outcome = "error"
           /\ last.err.kind = "argument type"
           /\ last.err.got = valueInterface(t, TRUE).type
           /\ last.err.value = t.text
           /\ last.value = NoValue

C8_Witness ==
    /\ OnCall({"getNumberInt"}, <<Tok("null", <<"n", "u", "l", "l">>)>>)
    /\ last.outcome = "error"

\* C9 as stated: scanning Numx fails with a syntax error that names x as the
\* unexpected character and I, L, D as the expected ones.
C9_NumxExpectsILD ==
    scan[1].fed = <<"m", "x">> =>
        /\ scan[1].step = StepFn("stateError")
        /\ scan[1].err.kind = "syntax"
        /\ scan[1].err.char = "x"
        /\ scan[1].err.expecting = {"I", "L", "D"}

\* C9 amended: scanning Numx fails with a syntax error that names x as the
\* unexpected character and b, the next byte of the literal Number, as the
\* expected one.
C9_NumxExpectsB ==
    scan[1].fed = <<"m", "x">> =>
        /\ scan[1].step = StepFn("stateError")
        /\ scan[1].ops = <<scanContinue, scanError>>
        /\ scan[1].err.kind = "syntax"
        /\ scan[1].err.char = "x"
        /\ scan[1].err.literal = "Number"
        /\ scan[1].err.expecting = {"b"}

C9_Witness == scan[1].fed = <<"m", "x">> /\ scan[1].err.char = "x"

\* C10: with the steps of two scanners interleaved, each scanner has the step,
\* the error and the scan actions it has when given its input alone, and a
\* step of one scanner leaves the other as it was.
C10_Alone ==
    \A i \in DOMAIN scan : scan[i] = RunAlone(AfterNu, scan[i].fed)

C10_OthersKept ==
    \A i \in DOMAIN scan : scan'[i].fed = scan[i].fed => scan'[i] = scan[i]

C10_NoInterference == [](C10_Alone) /\ [][C10_OthersKept]_vars

C10_Witness ==
    /\ DOMAIN scan = Ops
    /\ scan[1].step.fn = "stateConstructor"
    /\ scan[2].step.fn = "stateError"
    /\ scan[2].fed = <<"m", "b", "e", "r", "I", "n", "x">>

\* the number of times event e occurs in the statements of the latest call
Count(e) == Cardinality({k \in 1..Len(last.events) : last.events[k] = e})

\* C11: a store entry point writes the destination at most once, and leaves
\* it as it was whenever the call fails.
C11_WrittenAtMostOnce ==
    last.fn \in StoreFns =>
        /\ dest.writes - last.destBefore.writes <= 1
        /\ Count("v.Set") = dest.writes - last.destBefore.writes
        /\ last.outcome = "error" => dest = last.destBefore
        /\ last.outcome = "ok" => dest.kind = last.destBefore.kind

C11_Witness ==
    /\ last.fn = "storeNumberLong"
    /\ last.outcome = "ok"
    /\ dest.writes = 1
    /\ dest.value = NumberLong([neg |-> TRUE, mag |-> Cutoff64])

IsPrefix(p, q) == Len(p) <= Len(q) /\ SubSeq(q, 1, Len(p)) = p

\* the keywords, after `Nu`, that begin with p
KeywordsFrom(p) == {kw \in Keywords : IsPrefix(p, kw)}

\* the characters that continue a keyword after p
ExpectedAfter(p) == {kw[Len(p) + 1] : kw \in {k \in KeywordsFrom(p) : Len(k) > Len(p)}}

KeywordName(kw) == CASE kw = KwInt -> "NumberInt"
                     [] kw = KwLong -> "NumberLong"
                     [] kw = KwDecimal -> "NumberDecimal"

\* C12: the first character that leaves the keywords returns scanError at that
\* character, the error names the keyword being matched and the characters
\* expected there, and afterwards every character returns scanError with the
\* step in stateError, never a keyword state or stateConstructor.
C12_DeviationIsFatal ==
    LET f == scan[1].fed
        dev == {k \in 1..Len(f) : KeywordsFrom(SubSeq(f, 1, k)) = {}}
    IN  /\ \A k \in 1..Len(f) :
             scan[1].ops[k] = IF \E j \in dev : j <= k THEN scanError
                              ELSE scanContinue
        /\ dev = {} => scan[1].err = NoErr /\ scan[1].step.fn # "stateError"
        /\ dev # {} =>
             LET k == CHOOSE j \in dev : \A i \in dev : j <= i
                 p == SubSeq(f, 1, k - 1)
             IN  /\ scan[1].step = StepFn("stateError")
                 /\ scan[1].err.kind = "syntax"
                 /\ scan[1].err.char = f[k]
                 /\ scan[1].err.expecting = ExpectedAfter(p)
                 /\ scan[1].err.literal # ""
                 /\ \A kw \in Keywords :
                      KeywordsFrom(p) = {kw} => scan[1].err.literal = KeywordName(kw)

\* C13: in all six entry points, when the scan action after the skipped space
\* is not scanBeginCtor the call fails with "expected beginning of
\* constructor" before an argument is decoded, before d.useNumber is changed
\* and before the destination is touched.
C13_BeginCtorFirst ==
    ( /\ last.fn \in GetFns \cup StoreFns
      /\ last.op # scanBeginCtor )
    => /\ last.outcome = "error"
       /\ last.err = ErrBeginCtor
       /\ last.events = <<"scanWhile", "d.error">>
       /\ last.value = NoValue
       /\ useNumber = last.prior
       /\ dest = last.destBefore

C13_Witness ==
    /\ last.fn = "getNumberInt"
    /\ last.op = scanBeginLiteral
    /\ last.prior = FALSE
    /\ last.toks = <<Tok("number", <<"7">>)>>
    /\ last.outcome = "error"

\* the name of the constructor each entry point decodes
CtorName(fn) ==
    CASE fn \in {"storeNumberInt", "getNumberInt"} -> "NumberInt"
      [] fn \in {"storeNumberLong", "getNumberLong"} -> "NumberLong"
      [] fn \in {"storeNumberDecimal", "getNumberDecimal"} -> "NumberDecimal"

\* C14: the arity error of each literal form carries the name of the
\* constructor being decoded, the expected count and the actual count.
C14_ArityNamesConstructor ==
    ( /\ last.fn \in GetFns \cup StoreFns
      /\ last.err.kind = "arity" )
    => /\ last.err.name = CtorName(last.fn)
       /\ last.err.expected = 1
       /\ last.err.actual = Len(last.toks)

\* the get entry point of the literal kind of store entry point fn
GetOf(fn, d, op, toks) ==
    CASE fn = "storeNumberInt" -> getNumberInt(d, op, toks)
      [] fn = "storeNumberLong" -> getNumberLong(d, op, toks)
      [] fn = "storeNumberDecimal" -> getNumberDecimal(d, op, toks)

\* C15: for each literal kind and each argument that is a bare number or a
\* quoted string, the store entry point with an interface destination succeeds
\* exactly when the get entry point succeeds on the same input, and stores the
\* value the get entry point returns.
C15_EntryPointsAgree ==
    ( /\ last.fn \in StoreFns
      /\ last.destBefore.kind = "interface"
      /\ last.op = scanBeginCtor
      /\ Len(last.toks) = 1
      /\ last.toks[1].kind \in NumArgKinds )
    => LET g == GetOf(last.fn, last.prior, last.op, last.toks)
       IN  /\ last.outcome = "ok" <=> g.outcome = "ok"
           /\ last.outcome = "ok" => dest.value = g.value

\* C16: args[0] is read only when it exists: in the get entry points after the
\* arity check found exactly one argument, in the store entry points after
\* the typed constructor decode returned without error; it is never read of
\* an empty argument list.
C16_FirstArgExists ==
    ( /\ last.fn \in GetFns \cup StoreFns
      /\ Count("args[0]") > 0 )
    => /\ last.op = scanBeginCtor
       /\ Len(last.toks) = 1
       /\ last.toks[1].kind # "invalid"
       /\ last.fn \in GetFns =>
            /\ ~ctorInterface(TRUE, last.toks).panic
            /\ Len(ctorInterface(TRUE, last.toks).args) = 1
       /\ last.fn \in StoreFns =>
            /\ ~StoreCtor(last.fn, last.toks).panic
            /\ StoreCtor(last.fn, last.toks).err = NoErr
            /\ Len(StoreCtor(last.fn, last.toks).args) = 1

C16_Witness ==
    /\ last.fn = "getNumberLong"
    /\ last.toks = <<Tok("string", <<"a", "b", "c">>)>>
    /\ Count("args[0]") = 1
    /\ last.outcome = "error"

====
